---- MODULE Spec2Model ----
(***************************************************************************)
(* Managed AI-gateway credential lifecycle: the consent route (grant =     *)
(* POST, revoke = DELETE) of src/app/api/ai-gateway/consent/route.ts and   *)
(* the anonymous-to-real identity migration of src/next.config.ts.         *)
(*                                                                         *)
(* Each request is a process whose position (pc) advances one awaited      *)
(* store operation or provider call at a time, so that requests and the    *)
(* migration interleave at exactly the suspension points of the code.      *)
(***************************************************************************)
EXTENDS Integers, Sequences, FiniteSets, TLC

VARIABLES
    managedKeysEnabled, \* result of isAiGatewayManagedKeysEnabled()
    accounts,           \* the accounts table (read-only here)
    integrations,       \* the integrations table: id -> row
    workflows,          \* the workflows table: id -> owner
    workflowExecutions, \* the workflow_executions table: id -> owner
    nextId,             \* the next id the store generates for an integration
    req,                \* per request slot: position and locals of the handler
    mig,                \* the onLinkAccount callback: position and arguments
    revoked             \* history: integration ids a revoke answered 200 for

vars == <<managedKeysEnabled, accounts, integrations, workflows,
          workflowExecutions, nextId, req, mig, revoked>>

----------------------------------------------------------------------------
(* Bounds *)

\* number of integration rows the store may generate an id for in one run,
\* under Spec and under SpecConcurrent
MaxGrants == 1

MaxGrantsConcurrent == 2

----------------------------------------------------------------------------
(* Values *)

\* JavaScript null / undefined
Null == "null"

\* the request slots (independent inbound requests in flight)
Procs == {"p1", "p2"}

AnonUsers == {"a1"}
RealUsers == {"u1", "u2"}
Users == AnonUsers \cup RealUsers

\* route.ts:202, the display label used when the body carries no teamName
DefaultTeamName == "AI Gateway"

\* route.ts:110 / 248, the fixed type discriminator
ManagedType == "ai-gateway"

\* route.ts:158, the fixed provider name
VercelProvider == "vercel"

\* JavaScript truthiness of a string-or-null value (route.ts:76,158,177,181,268,273)
Truthy(v) == v # Null /\ v # ""

----------------------------------------------------------------------------
(* Secure config codec: JSON.stringify / JSON.parse and encrypt / decrypt *)

ConfigKeys == <<"apiKey", "managedKeyId", "teamId">>

\* JSON.stringify of an object with the three config properties: a property
\* whose value is undefined is omitted from the text
RECURSIVE StringifyFrom(_, _)
StringifyFrom(obj, i) ==
    IF i > Len(ConfigKeys) THEN <<>>
    ELSE LET k == ConfigKeys[i]
             rest == StringifyFrom(obj, i + 1)
         IN IF obj[k] = Null THEN rest ELSE <<(<<k, obj[k]>>)>> \o rest

\* a serializer that leaves out every falsy property
JSONStringifyTruthy(obj) ==
    LET keep == SelectSeq(ConfigKeys, LAMBDA k : obj[k] \notin {Null, ""})
    IN [i \in 1..Len(keep) |-> <<keep[i], obj[keep[i]]>>]

JSONStringify(obj) == StringifyFrom(obj, 1)

\* property read on the parsed object: undefined when the key is not in the text
Lookup(text, k) ==
    IF \E i \in 1..Len(text) : text[i][1] = k
    THEN text[CHOOSE i \in 1..Len(text) : text[i][1] = k][2]
    ELSE Null

JSONParse(text) == [k \in {ConfigKeys[i] : i \in 1..Len(ConfigKeys)} |-> Lookup(text, k)]

\* the symmetric encryption collaborator (lib/db/integrations), opaque
encrypt(plaintext) == <<"enc", plaintext>>
decrypt(ciphertext) == ciphertext[2]

\* a config that could not be decrypted or parsed: config stays null, and
\* config?.x is undefined
NullConfig == [k \in {ConfigKeys[i] : i \in 1..Len(ConfigKeys)} |-> Null]

----------------------------------------------------------------------------
(* Tables *)

\* accounts rows (lib/db/schema accounts): one user may hold one account per
\* provider; an email/password account carries no access token
Account(u, prov, tok) == [userId |-> u, providerId |-> prov, accessToken |-> tok]

NoAccount == [userId |-> Null, providerId |-> Null, accessToken |-> Null]

InitialAccounts ==
    { Account("u1", "credential", Null),
      Account("u1", "github", "tok_u1_github"),
      Account("u1", VercelProvider, "tok_u1_vercel"),
      Account("u2", VercelProvider, "tok_u2_vercel") }

\* integrations rows
Integration(u, name, type, config, managed) ==
    [userId |-> u, name |-> name, type |-> type, config |-> config,
     isManaged |-> managed]

\* rows the store holds before any request: user-supplied integrations, which
\* the consent route never creates
InitialIntegrations ==
    1 :> Integration("u1", "My key", ManagedType,
                     encrypt(<< <<"apiKey", "user_key">> >>), FALSE)
    @@
    2 :> Integration("a1", "Chat", "slack",
                     encrypt(<< <<"apiKey", "xoxb">> >>), FALSE)

FirstGeneratedId == Cardinality(DOMAIN InitialIntegrations) + 1

LastGeneratedId(maxGrants) == FirstGeneratedId + maxGrants - 1

InitialWorkflows == ("w1" :> "a1") @@ ("w2" :> "u2")

InitialWorkflowExecutions == ("e1" :> "a1")

----------------------------------------------------------------------------
(* Request slots *)

NoKey == [token |-> Null, id |-> Null]

IdleReq ==
    [pc |-> "idle", method |-> "none", user |-> Null,
     account |-> NoAccount,
     bodyParsed |-> FALSE, bodyTeamId |-> Null,
     teamId |-> Null, teamName |-> Null, key |-> NoKey,
     integrationId |-> 0, found |-> 0, decoded |-> FALSE, config |-> NullConfig,
     calls |-> <<>>, remote |-> "none", reads |-> 0, writes |-> 0,
     deleted |-> FALSE, afterRevoked |-> FALSE,
     teamsResp |-> [kind |-> "none", hasTeams |-> FALSE, teams |-> <<>>],
     userinfoResp |-> [kind |-> "none", sub |-> Null],
     created |-> [kind |-> "none", apiKeyString |-> Null, apiKeyId |-> Null],
     saved |-> "none",
     outcome |-> "none", status |-> 0, error |-> Null,
     hasManagedKey |-> Null, managedIntegrationId |-> 0]

\* Response.json(...): the handler returns
Respond(r, status, error, hasKey, id) ==
    [r EXCEPT !.pc = "done", !.outcome = "response", !.status = status,
              !.error = error, !.hasManagedKey = hasKey,
              !.managedIntegrationId = id]

\* an exception leaves the handler uncaught
Escape(r) == [r EXCEPT !.pc = "done", !.outcome = "exception"]

\* an outbound provider call: fetch(url, {Authorization: Bearer token})
Call(kind, token, teamId, keyId) ==
    [kind |-> kind, token |-> token, teamId |-> teamId, keyId |-> keyId]

Issue(r, c) == [r EXCEPT !.calls = Append(@, c)]

\* db.query.accounts.findFirst({where: eq(accounts.userId, userId)}): no
\* ordering is given, so the store may return any row of the user
AccountRows(userId) == {a \in accounts : a.userId = userId}

FindFirstAccount(userId) ==
    IF AccountRows(userId) = {} THEN {NoAccount} ELSE AccountRows(userId)

----------------------------------------------------------------------------
(* Provider responses (the environment's choices) *)

Team(id, limited) == [id |-> id, limited |-> limited]

\* GET /v2/teams -> {teams: [{id, limited}, ...]}
TeamLists ==
    { <<>>,
      <<Team("t1", TRUE)>>,
      <<Team("t1", TRUE), Team("t2", FALSE)>>,
      <<Team("t2", FALSE), Team("t1", FALSE)>> }

TeamsResponses ==
    { [kind |-> k, hasTeams |-> FALSE, teams |-> <<>>] :
        k \in {"throw", "non2xx", "badjson", "ok"} }
    \cup { [kind |-> "ok", hasTeams |-> TRUE, teams |-> t] : t \in TeamLists }

\* GET /login/oauth/userinfo -> {sub, ...}
UserinfoResponses ==
    { [kind |-> k, sub |-> Null] : k \in {"throw", "non2xx", "badjson", "ok"} }
    \cup { [kind |-> "ok", sub |-> "usr_1"] }

\* POST /v1/api-keys?teamId= -> {apiKeyString, apiKey: {id}}
CreateResponses ==
    { [kind |-> k, apiKeyString |-> Null, apiKeyId |-> Null] :
        k \in {"throw", "non2xx", "badjson"} }
    \cup { [kind |-> "ok", apiKeyString |-> s, apiKeyId |-> i] :
             s \in {Null, "ak_123"}, i \in {Null, "key_1"} }

\* DELETE /v1/api-keys/<id>?teamId=
DeleteResponses == {"throw", "non2xx", "ok"}

\* request bodies of POST: absent / unparseable, or an object carrying
\* teamId and teamName (either may be missing; teamId may be empty)
Body(parsed, teamId, teamName) ==
    [parsed |-> parsed, teamId |-> teamId, teamName |-> teamName]

Bodies ==
    { Body(FALSE, Null, Null), Body(TRUE, Null, Null), Body(TRUE, "", Null),
      Body(TRUE, "t1", "Team A") }

----------------------------------------------------------------------------
(* Team resolver: getTeamId, route.ts:15-42 *)

\* a find that takes the first team whatever its access
TeamsFindFirstOfAll(teams) == IF Len(teams) > 0 THEN teams[1].id ELSE Null

\* teamsData.teams?.find(t => !t.limited): the first team not limited
TeamsFind(teams) ==
    IF \E i \in 1..Len(teams) : ~teams[i].limited
    THEN teams[CHOOSE i \in 1..Len(teams) :
                 /\ ~teams[i].limited
                 /\ \A j \in 1..(i - 1) : teams[j].limited].id
    ELSE Null

\* lines 17-28: "threw" when the fetch rejects or the body does not parse,
\* else the accessible team's id, or Null to fall through
TeamsStep(resp) ==
    IF resp.kind \in {"throw", "badjson"} THEN [threw |-> TRUE, teamId |-> Null]
    ELSE IF resp.kind = "ok" /\ resp.hasTeams
         THEN [threw |-> FALSE, teamId |-> TeamsFind(resp.teams)]
         ELSE [threw |-> FALSE, teamId |-> Null]

\* lines 31-41
UserinfoStep(resp) ==
    IF resp.kind \in {"throw", "badjson"} THEN [threw |-> TRUE, teamId |-> Null]
    ELSE IF resp.kind = "non2xx" THEN [threw |-> FALSE, teamId |-> Null]
    ELSE [threw |-> FALSE, teamId |-> resp.sub]

\* getTeamId(accessToken) on its own: the two responses the provider will
\* give are r.teamsResp and r.userinfoResp

\* lines 17-28
GetTeamIdTeams(p) ==
    /\ req[p].method = "getTeamId" /\ req[p].pc = "teams"
    /\ LET r == Issue(req[p], Call("teams", req[p].account.accessToken, Null, Null))
           s == TeamsStep(r.teamsResp)
       IN req' = [req EXCEPT ![p] =
            IF s.threw THEN Escape(r)
            ELSE IF s.teamId # Null
            THEN [r EXCEPT !.teamId = s.teamId, !.pc = "returned"]
            ELSE [r EXCEPT !.pc = "userinfo"]]
    /\ UNCHANGED <<managedKeysEnabled, accounts, integrations, workflows,
                   workflowExecutions, nextId, mig, revoked>>

\* lines 31-41
GetTeamIdUserinfo(p) ==
    /\ req[p].method = "getTeamId" /\ req[p].pc = "userinfo"
    /\ LET r == Issue(req[p], Call("userinfo", req[p].account.accessToken, Null, Null))
           s == UserinfoStep(r.userinfoResp)
       IN req' = [req EXCEPT ![p] =
            IF s.threw THEN Escape(r)
            ELSE [r EXCEPT !.teamId = s.teamId, !.pc = "returned"]]
    /\ UNCHANGED <<managedKeysEnabled, accounts, integrations, workflows,
                   workflowExecutions, nextId, mig, revoked>>

----------------------------------------------------------------------------
(* Credential provisioner: createVercelApiKey, route.ts:47-81 *)

\* a provisioner that hands back whatever the 2xx body holds
CreateVercelApiKeyUnchecked(resp) ==
    IF resp.kind \in {"throw", "badjson"} THEN [threw |-> TRUE, key |-> NoKey]
    ELSE IF resp.kind = "non2xx" THEN [threw |-> FALSE, key |-> NoKey]
    ELSE [threw |-> FALSE,
          key |-> [token |-> resp.apiKeyString, id |-> resp.apiKeyId]]

CreateVercelApiKey(resp) ==
    IF resp.kind \in {"throw", "badjson"} THEN [threw |-> TRUE, key |-> NoKey]
    ELSE IF resp.kind = "non2xx" THEN [threw |-> FALSE, key |-> NoKey]
    ELSE IF ~Truthy(resp.apiKeyString) THEN [threw |-> FALSE, key |-> NoKey]
    ELSE [threw |-> FALSE,
          key |-> [token |-> resp.apiKeyString, id |-> resp.apiKeyId]]

----------------------------------------------------------------------------
(* Managed integration store: saveIntegration, route.ts:96-121 *)

\* a config written with the team id in the place of the key id
EncodeConfigTeamAsKeyId(apiKey, apiKeyId, teamId) ==
    encrypt(JSONStringify([apiKey |-> apiKey, managedKeyId |-> teamId,
                           teamId |-> teamId]))

\* lines 100-102
EncodeConfig(apiKey, apiKeyId, teamId) ==
    encrypt(JSONStringify([apiKey |-> apiKey, managedKeyId |-> apiKeyId,
                           teamId |-> teamId]))

\* lines 261-262, with the key the config was written under
DecodeConfig(ciphertext) == JSONParse(decrypt(ciphertext))

SaveOutcomes == {"encrypt_throw", "insert_throw", "no_row", "ok"}

\* the row inserted at lines 105-114
ManagedRow(userId, apiKey, apiKeyId, teamId, teamName) ==
    Integration(userId, teamName, ManagedType,
                EncodeConfig(apiKey, apiKeyId, teamId), TRUE)

----------------------------------------------------------------------------
(* POST /api/ai-gateway/consent, route.ts:144-217 *)

Sessions == Users \cup {Null}

\* the two gates in the other order
PostGateSessionFirst(enabled, u) ==
    IF u = Null THEN 401 ELSE IF ~enabled THEN 403 ELSE 0

\* lines 145-152: the feature gate, then the session gate; the status of the
\* gate that fails, or 0 when both pass
PostGate(enabled, u) ==
    IF ~enabled THEN 403 ELSE IF u = Null THEN 401 ELSE 0

\* a grant that always auto-detects the team
NeedsResolverAlways(teamId) == TRUE

\* line 177
NeedsResolver(teamId) == ~Truthy(teamId)

BeginPOST(p, sessions) ==
    /\ req[p].pc = "idle"
    /\ \E u \in sessions :
        LET r == [IdleReq EXCEPT !.method = "POST", !.user = u]
            g == PostGate(managedKeysEnabled, u)
        IN req' = [req EXCEPT ![p] =
            IF g = 403 THEN Respond(r, 403, "Feature not enabled", Null, 0)
            ELSE IF g = 401 THEN Respond(r, 401, "Not authenticated", Null, 0)
            ELSE [r EXCEPT !.pc = "post_account"]]
    /\ UNCHANGED <<managedKeysEnabled, accounts, integrations, workflows,
                   workflowExecutions, nextId, mig, revoked>>

\* lines 154-179: the account lookup, the body, and the choice between the
\* explicit team id and the resolver
PostAccount(p, bodies) ==
    /\ req[p].pc = "post_account"
    /\ \E account \in FindFirstAccount(req[p].user), body \in bodies :
        LET r == [req[p] EXCEPT !.reads = @ + 1, !.account = account] IN
        req' = [req EXCEPT ![p] =
            IF ~Truthy(account.accessToken) \/ account.providerId # VercelProvider
            THEN Respond(r, 400, "No Vercel account linked", Null, 0)
            ELSE LET b == [r EXCEPT !.bodyParsed = body.parsed,
                                    !.bodyTeamId = body.teamId,
                                    !.teamId = body.teamId,
                                    !.teamName = body.teamName]
                 IN IF NeedsResolver(b.teamId)
                    THEN [b EXCEPT !.pc = "teams"]
                    ELSE [b EXCEPT !.pc = "create"]]
    /\ UNCHANGED <<managedKeysEnabled, accounts, integrations, workflows,
                   workflowExecutions, nextId, mig, revoked>>

\* line 178 into getTeamId lines 17-28: nothing catches what getTeamId throws
PostTeams(p) ==
    /\ req[p].pc = "teams"
    /\ \E resp \in TeamsResponses :
        LET r == Issue(req[p], Call("teams", req[p].account.accessToken, Null, Null))
            s == TeamsStep(resp)
        IN req' = [req EXCEPT ![p] =
            IF s.threw THEN Escape(r)
            ELSE IF Truthy(s.teamId)
            THEN [r EXCEPT !.teamId = s.teamId, !.pc = "create"]
            ELSE [r EXCEPT !.pc = "userinfo"]]
    /\ UNCHANGED <<managedKeysEnabled, accounts, integrations, workflows,
                   workflowExecutions, nextId, mig, revoked>>

\* getTeamId lines 31-41, then lines 181-186
PostUserinfo(p) ==
    /\ req[p].pc = "userinfo"
    /\ \E resp \in UserinfoResponses :
        LET r == Issue(req[p], Call("userinfo", req[p].account.accessToken, Null, Null))
            s == UserinfoStep(resp)
        IN req' = [req EXCEPT ![p] =
            IF s.threw THEN Escape(r)
            ELSE IF ~Truthy(s.teamId)
            THEN Respond([r EXCEPT !.teamId = s.teamId], 500,
                         "Could not determine user's team", Null, 0)
            ELSE [r EXCEPT !.teamId = s.teamId, !.pc = "create"]]
    /\ UNCHANGED <<managedKeysEnabled, accounts, integrations, workflows,
                   workflowExecutions, nextId, mig, revoked>>

\* a catch block that rethrows
CatchGrantRethrows(r) == Escape(r)

\* lines 210-216: the catch of the try that holds provisioning and saving
CatchGrant(r) == Respond(r, 500, "Failed to create API key", Null, 0)

\* an insert that overwrites the row the user already has for the type
InsertRowPerUser(table, id, row) ==
    IF \E k \in DOMAIN table :
          table[k].userId = row.userId /\ table[k].type = row.type
    THEN [k \in DOMAIN table |->
            IF table[k].userId = row.userId /\ table[k].type = row.type
            THEN row ELSE table[k]]
    ELSE table @@ (id :> row)

\* lines 105-114: db.insert(integrations).values(row).returning(id), always
\* a new row under the id the store generates
InsertRow(table, id, row) == table @@ (id :> row)

\* lines 188-195 and the catch at 210-216
PostCreate(p) ==
    /\ req[p].pc = "create"
    /\ \E resp \in CreateResponses :
        LET r == [Issue(req[p], Call("create", req[p].account.accessToken,
                                     req[p].teamId, Null))
                    EXCEPT !.created = resp]
            c == CreateVercelApiKey(resp)
        IN req' = [req EXCEPT ![p] =
            IF c.threw THEN CatchGrant(r)
            ELSE IF c.key = NoKey
            THEN Respond(r, 500, "Failed to create API key", Null, 0)
            ELSE [r EXCEPT !.key = c.key, !.pc = "save"]]
    /\ UNCHANGED <<managedKeysEnabled, accounts, integrations, workflows,
                   workflowExecutions, nextId, mig, revoked>>

\* lines 197-209 with saveIntegration, and the catch at 210-216
PostSave(p, lastId) ==
    /\ req[p].pc = "save"
    /\ \E o \in SaveOutcomes :
        LET r == [req[p] EXCEPT !.saved = o]
            name == IF Truthy(r.teamName) THEN r.teamName ELSE DefaultTeamName
        IN IF o = "ok"
           THEN /\ nextId <= lastId
                /\ integrations' = InsertRow(integrations, nextId,
                       ManagedRow(r.user, r.key.token, r.key.id, r.teamId, name))
                /\ nextId' = nextId + 1
                /\ req' = [req EXCEPT ![p] =
                       Respond([r EXCEPT !.writes = @ + 1], 200, Null, "true", nextId)]
           ELSE /\ req' = [req EXCEPT ![p] =
                       CatchGrant([r EXCEPT !.writes = IF o = "encrypt_throw"
                                                       THEN @ ELSE @ + 1])]
                /\ UNCHANGED <<integrations, nextId>>
    /\ UNCHANGED <<managedKeysEnabled, accounts, workflows,
                   workflowExecutions, mig, revoked>>

----------------------------------------------------------------------------
(* DELETE /api/ai-gateway/consent?integrationId=, route.ts:224-291 *)

\* a lookup that leaves out the owner
FindManagedAnyOwner(id, userId) ==
    /\ id \in DOMAIN integrations
    /\ integrations[id].type = ManagedType
    /\ integrations[id].isManaged

\* lines 244-251: the exact four-way match
FindManaged(id, userId) ==
    /\ id \in DOMAIN integrations
    /\ integrations[id].userId = userId
    /\ integrations[id].type = ManagedType
    /\ integrations[id].isManaged

\* decrypt either returns the plaintext or throws (a ciphertext written under
\* another key, or damaged at rest)
DecryptOutcomes == {"ok", "throw"}

\* line 268
HasKeyAndTeam(config) == Truthy(config.managedKeyId) /\ Truthy(config.teamId)

\* remote cleanup as soon as either of the two is there
AfterFindEither(config) ==
    IF Truthy(config.managedKeyId) \/ Truthy(config.teamId)
    THEN "del_account" ELSE "del_row"

\* line 268: remote cleanup only with both the key id and the team id
AfterFind(config) == IF HasKeyAndTeam(config) THEN "del_account" ELSE "del_row"

\* a revoke that goes straight to the local deletion
AfterAccountSkipsRemote(account) == "del_row"

\* line 273: the remote call only with an access token
AfterAccount(account) ==
    IF Truthy(account.accessToken) THEN "del_remote" ELSE "del_row"

\* a revoke whose remote call is let to throw out of the handler
\* a remote delete that is tried again until the provider accepts it
AfterRemoteRetries(resp) == IF resp = "ok" THEN "del_row" ELSE "del_remote"

AfterRemoteUncaught(resp) == IF resp = "throw" THEN "escape" ELSE "del_row"

\* lines 274-282: whatever deleteVercelApiKey does (returns on any status,
\* or throws into the catch), the handler goes on to the local deletion
AfterRemote(resp) == "del_row"

\* a delete whose condition matches no row
DeleteRowNothing(table, id) == table

\* lines 286-288: delete(integrations).where(eq(integrations.id, id))
DeleteRow(table, id) == [i \in DOMAIN table \ {id} |-> table[i]]

\* lines 225-242: the feature gate, the session gate, the query parameter
\* (0 stands for a request without integrationId); the status of the check
\* that fails, or 0 when all pass
DeleteGate(enabled, u, id) ==
    IF ~enabled THEN 403 ELSE IF u = Null THEN 401 ELSE IF id = 0 THEN 400 ELSE 0

BeginDELETE(p, sessions, lastId) ==
    /\ req[p].pc = "idle"
    /\ \E u \in sessions, id \in 0..lastId :
        LET r == [IdleReq EXCEPT !.method = "DELETE", !.user = u,
                                 !.integrationId = id,
                                 !.afterRevoked = (id \in revoked)]
            g == DeleteGate(managedKeysEnabled, u, id)
        IN req' = [req EXCEPT ![p] =
            IF g = 403 THEN Respond(r, 403, "Feature not enabled", Null, 0)
            ELSE IF g = 401 THEN Respond(r, 401, "Not authenticated", Null, 0)
            ELSE IF g = 400
            THEN Respond(r, 400, "integrationId query parameter is required", Null, 0)
            ELSE [r EXCEPT !.pc = "del_find"]]
    /\ UNCHANGED <<managedKeysEnabled, accounts, integrations, workflows,
                   workflowExecutions, nextId, mig, revoked>>

\* lines 244-268: the lookup, then decrypt and parse of the row's config
DelFind(p) ==
    /\ req[p].pc = "del_find"
    /\ \E d \in DecryptOutcomes :
        LET r == [req[p] EXCEPT !.reads = @ + 1] IN
        req' = [req EXCEPT ![p] =
            IF ~FindManaged(r.integrationId, r.user)
            THEN Respond(r, 404, "Integration not found", Null, 0)
            ELSE LET config == IF d = "ok"
                               THEN DecodeConfig(integrations[r.integrationId].config)
                               ELSE NullConfig
                 IN [r EXCEPT !.found = r.integrationId,
                              !.decoded = (d = "ok"),
                              !.config = config,
                              !.pc = AfterFind(config)]]
    /\ UNCHANGED <<managedKeysEnabled, accounts, integrations, workflows,
                   workflowExecutions, nextId, mig, revoked>>

\* lines 269-273
DelAccount(p) ==
    /\ req[p].pc = "del_account"
    /\ \E account \in FindFirstAccount(req[p].user) :
        req' = [req EXCEPT ![p] =
            [@ EXCEPT !.reads = @ + 1, !.account = account,
                      !.pc = AfterAccount(account)]]
    /\ UNCHANGED <<managedKeysEnabled, accounts, integrations, workflows,
                   workflowExecutions, nextId, mig, revoked>>

\* lines 275-279 into deleteVercelApiKey lines 131-137: the call is issued
DelRemoteIssue(p) ==
    /\ req[p].pc = "del_remote"
    /\ req' = [req EXCEPT ![p] =
           [Issue(@, Call("delete", @.account.accessToken, @.config.teamId,
                          @.config.managedKeyId))
              EXCEPT !.pc = "del_wait"]]
    /\ UNCHANGED <<managedKeysEnabled, accounts, integrations, workflows,
                   workflowExecutions, nextId, mig, revoked>>

\* the call returns (any status: the response is not read) or throws and
\* the catch at lines 280-282 swallows it
DelRemoteReturn(p) ==
    /\ req[p].pc = "del_wait"
    /\ \E resp \in DeleteResponses :
        req' = [req EXCEPT ![p] =
            IF AfterRemote(resp) = "escape"
            THEN Escape([@ EXCEPT !.remote = resp])
            ELSE [@ EXCEPT !.remote = resp, !.pc = AfterRemote(resp)]]
    /\ UNCHANGED <<managedKeysEnabled, accounts, integrations, workflows,
                   workflowExecutions, nextId, mig, revoked>>

\* lines 286-290: delete where id = managedIntegration.id, then 200
DelRow(p) ==
    /\ req[p].pc = "del_row"
    /\ integrations' = DeleteRow(integrations, req[p].found)
    /\ revoked' = revoked \cup {req[p].integrationId}
    /\ req' = [req EXCEPT ![p] =
           Respond([@ EXCEPT !.writes = @ + 1, !.deleted = TRUE],
                   200, Null, "false", 0)]
    /\ UNCHANGED <<managedKeysEnabled, accounts, workflows,
                   workflowExecutions, nextId, mig>>

----------------------------------------------------------------------------
(* Requests end *)

\* the process is interrupted while a request is suspended at an await
Interrupt(p) ==
    /\ req[p].pc \notin {"idle", "done"}
    /\ req' = [req EXCEPT ![p] = [@ EXCEPT !.pc = "done", !.outcome = "interrupted"]]
    /\ UNCHANGED <<managedKeysEnabled, accounts, integrations, workflows,
                   workflowExecutions, nextId, mig, revoked>>

\* the slot is free for the next request
Reset(p) ==
    /\ req[p].pc = "done"
    /\ req' = [req EXCEPT ![p] = IdleReq]
    /\ UNCHANGED <<managedKeysEnabled, accounts, integrations, workflows,
                   workflowExecutions, nextId, mig, revoked>>

----------------------------------------------------------------------------
(* Identity migration: onLinkAccount, next.config.ts:67-105 *)

IdleMig == [pc |-> "idle", from |-> Null, to |-> Null, outcome |-> "none"]

\* an update without its where clause
ReassignEveryRow(table, from, to) == [k \in DOMAIN table |-> to]

\* update(t).set({userId: to}).where(eq(t.userId, from)) on an owner column
Reassign(table, from, to) ==
    [k \in DOMAIN table |-> IF table[k] = from THEN to ELSE table[k]]

\* the same update on integration rows
ReassignRows(table, from, to) ==
    [k \in DOMAIN table |->
        IF table[k].userId = from THEN [table[k] EXCEPT !.userId = to] ELSE table[k]]

\* a catch block that logs and returns
MigCatchSwallows(m) == [m EXCEPT !.pc = "idle", !.outcome = "ok"]

\* lines 98-104: log, then throw error
MigCatch(m) == [m EXCEPT !.pc = "idle", !.outcome = "threw"]

\* lines 69-70: the callback is invoked for an anonymous user and the account
\* it is linked to; an anonymous user is linked to one account, and the
\* callback may run again for the same pair
MigBegin ==
    /\ mig.pc = "idle"
    /\ \E from \in AnonUsers, to \in RealUsers :
        /\ mig.to \in {Null, to}
        /\ mig' = [pc |-> "workflows", from |-> from, to |-> to, outcome |-> "running"]
    /\ UNCHANGED <<managedKeysEnabled, accounts, integrations, workflows,
                   workflowExecutions, nextId, req, revoked>>

\* lines 78-81, or the update throws and lines 98-103 re-raise
MigWorkflows ==
    /\ mig.pc = "workflows"
    /\ \E ok \in BOOLEAN :
        IF ok
        THEN /\ workflows' = Reassign(workflows, mig.from, mig.to)
             /\ mig' = [mig EXCEPT !.pc = "executions"]
        ELSE /\ mig' = MigCatch(mig)
             /\ UNCHANGED workflows
    /\ UNCHANGED <<managedKeysEnabled, accounts, integrations,
                   workflowExecutions, nextId, req, revoked>>

\* lines 84-87
MigExecutions ==
    /\ mig.pc = "executions"
    /\ \E ok \in BOOLEAN :
        IF ok
        THEN /\ workflowExecutions' = Reassign(workflowExecutions, mig.from, mig.to)
             /\ mig' = [mig EXCEPT !.pc = "integrations"]
        ELSE /\ mig' = MigCatch(mig)
             /\ UNCHANGED workflowExecutions
    /\ UNCHANGED <<managedKeysEnabled, accounts, integrations,
                   workflows, nextId, req, revoked>>

\* lines 90-97
MigIntegrations ==
    /\ mig.pc = "integrations"
    /\ \E ok \in BOOLEAN :
        IF ok
        THEN /\ integrations' = ReassignRows(integrations, mig.from, mig.to)
             /\ mig' = [mig EXCEPT !.pc = "idle", !.outcome = "ok"]
        ELSE /\ mig' = MigCatch(mig)
             /\ UNCHANGED integrations
    /\ UNCHANGED <<managedKeysEnabled, accounts, workflows,
                   workflowExecutions, nextId, req, revoked>>

----------------------------------------------------------------------------
(* The system *)

Init ==
    /\ managedKeysEnabled \in BOOLEAN
    /\ accounts = InitialAccounts
    /\ integrations = InitialIntegrations
    /\ workflows = InitialWorkflows
    /\ workflowExecutions = InitialWorkflowExecutions
    /\ nextId = FirstGeneratedId
    /\ req = [p \in Procs |-> IdleReq]
    /\ mig = IdleMig
    /\ revoked = {}

\* requests one at a time, any session, any body, with the migration
Next ==
    \/ BeginPOST("p1", Sessions)
    \/ PostAccount("p1", Bodies)
    \/ PostTeams("p1")
    \/ PostUserinfo("p1")
    \/ PostCreate("p1")
    \/ PostSave("p1", LastGeneratedId(MaxGrants))
    \/ BeginDELETE("p1", Sessions, LastGeneratedId(MaxGrants))
    \/ DelFind("p1")
    \/ DelAccount("p1")
    \/ DelRemoteIssue("p1")
    \/ DelRemoteReturn("p1")
    \/ DelRow("p1")
    \/ Interrupt("p1")
    \/ Reset("p1")
    \/ MigBegin
    \/ MigWorkflows
    \/ MigExecutions
    \/ MigIntegrations

Spec == Init /\ [][Next]_vars

\* two requests in flight at once, interleaved at every await; sessions of the
\* real users, bodies with an explicit team id
ConcurrentSessions == RealUsers

ConcurrentBodies == { Body(TRUE, "t1", "Team A") }

NextConcurrent ==
    \/ \E p \in Procs : BeginPOST(p, ConcurrentSessions)
    \/ \E p \in Procs : PostAccount(p, ConcurrentBodies)
    \/ \E p \in Procs : PostCreate(p)
    \/ \E p \in Procs : PostSave(p, LastGeneratedId(MaxGrantsConcurrent))
    \/ \E p \in Procs :
         BeginDELETE(p, ConcurrentSessions, LastGeneratedId(MaxGrantsConcurrent))
    \/ \E p \in Procs : DelFind(p)
    \/ \E p \in Procs : DelAccount(p)
    \/ \E p \in Procs : DelRemoteIssue(p)
    \/ \E p \in Procs : DelRemoteReturn(p)
    \/ \E p \in Procs : DelRow(p)
    \/ \E p \in Procs : Interrupt(p)
    \/ \E p \in Procs : Reset(p)

SpecConcurrent == Init /\ [][NextConcurrent]_vars

\* the life of integration rows: grants and revokes of the real users for an
\* explicit team, one request at a time, with the identity migration running
\* in between
NextLifecycle ==
    \/ BeginPOST("p1", ConcurrentSessions)
    \/ PostAccount("p1", ConcurrentBodies)
    \/ PostCreate("p1")
    \/ PostSave("p1", LastGeneratedId(MaxGrantsConcurrent))
    \/ BeginDELETE("p1", ConcurrentSessions, LastGeneratedId(MaxGrantsConcurrent))
    \/ DelFind("p1")
    \/ DelAccount("p1")
    \/ DelRemoteIssue("p1")
    \/ DelRemoteReturn("p1")
    \/ DelRow("p1")
    \/ Reset("p1")
    \/ MigBegin
    \/ MigWorkflows
    \/ MigExecutions
    \/ MigIntegrations

SpecLifecycle == Init /\ [][NextLifecycle]_vars

\* the team resolver alone: one call of getTeamId for every access token of
\* the accounts table and every pair of provider responses
InitResolver ==
    /\ managedKeysEnabled = TRUE
    /\ accounts = InitialAccounts
    /\ integrations = InitialIntegrations
    /\ workflows = InitialWorkflows
    /\ workflowExecutions = InitialWorkflowExecutions
    /\ nextId = FirstGeneratedId
    /\ mig = IdleMig
    /\ revoked = {}
    /\ \E a \in {x \in InitialAccounts : x.accessToken # Null},
          t \in TeamsResponses, u \in UserinfoResponses :
        req = [p \in Procs |->
                 IF p = "p1"
                 THEN [IdleReq EXCEPT !.method = "getTeamId", !.pc = "teams",
                                      !.user = a.userId, !.account = a,
                                      !.teamsResp = t, !.userinfoResp = u]
                 ELSE IdleReq]

NextResolver ==
    \/ GetTeamIdTeams("p1")
    \/ GetTeamIdUserinfo("p1")

SpecResolver == InitResolver /\ [][NextResolver]_vars

\* the config codec alone: saveIntegration's encoding of a record of three
\* strings, then DELETE's decoding of the stored ciphertext
CodecStrings == {"", "k", "key_1", "t1", "team_x"}

InitCodec ==
    /\ managedKeysEnabled = TRUE
    /\ accounts = InitialAccounts
    /\ integrations = InitialIntegrations
    /\ workflows = InitialWorkflows
    /\ workflowExecutions = InitialWorkflowExecutions
    /\ nextId = FirstGeneratedId
    /\ mig = IdleMig
    /\ revoked = {}
    /\ \E apiKey \in CodecStrings, apiKeyId \in CodecStrings,
          teamId \in CodecStrings :
        req = [p \in Procs |->
                 IF p = "p1"
                 THEN [IdleReq EXCEPT !.method = "codec", !.pc = "encode",
                                      !.user = "u1",
                                      !.key = [token |-> apiKey, id |-> apiKeyId],
                                      !.teamId = teamId]
                 ELSE IdleReq]

\* route.ts:100-114: the config is serialized, encrypted and stored
CodecEncode(p) ==
    /\ req[p].method = "codec" /\ req[p].pc = "encode"
    /\ integrations' = InsertRow(integrations, nextId,
           ManagedRow(req[p].user, req[p].key.token, req[p].key.id,
                      req[p].teamId, DefaultTeamName))
    /\ nextId' = nextId + 1
    /\ req' = [req EXCEPT ![p].pc = "decode", ![p].integrationId = nextId]
    /\ UNCHANGED <<managedKeysEnabled, accounts, workflows,
                   workflowExecutions, mig, revoked>>

\* route.ts:258-266: the stored ciphertext is decrypted and parsed
CodecDecode(p) ==
    /\ req[p].method = "codec" /\ req[p].pc = "decode"
    /\ req' = [req EXCEPT
                 ![p].config = DecodeConfig(integrations[req[p].integrationId].config),
                 ![p].decoded = TRUE,
                 ![p].pc = "decoded"]
    /\ UNCHANGED <<managedKeysEnabled, accounts, integrations, workflows,
                   workflowExecutions, nextId, mig, revoked>>

NextCodec ==
    \/ CodecEncode("p1")
    \/ CodecDecode("p1")

SpecCodec == InitCodec /\ [][NextCodec]_vars

----------------------------------------------------------------------------
(* Properties *)

\* the positions in r.calls of the calls of one kind
CallsOf(r, kind) == {i \in 1..Len(r.calls) : r.calls[i].kind = kind}

\* the handler returned a response
Responded(r) == r.pc = "done" /\ r.outcome = "response"

\* the handler ran to its end: it returned or threw, and was not interrupted
Ended(r) == r.pc = "done" /\ r.outcome # "interrupted"

\* the user has an account row of the fixed provider with an access token
HasVercelToken(u) ==
    \E a \in accounts :
        a.userId = u /\ a.providerId = "vercel" /\ a.accessToken # Null

\* the row a revoke of id by user u is about: all four columns match
MatchesFour(id, u) ==
    /\ id \in DOMAIN integrations
    /\ integrations[id].userId = u
    /\ integrations[id].type = "ai-gateway"
    /\ integrations[id].isManaged = TRUE

\* C1: a revoke that decoded both managedKeyId and teamId and found an
\* account with an access token has deleted the local row only if its remote
\* delete call was issued before and has returned or thrown; this holds in
\* every state, so also when the request is interrupted at any step.
C1_LocalDeleteAfterRemoteAttempt ==
    \A p \in Procs :
        LET r == req[p] IN
        (/\ r.method = "DELETE"
         /\ Truthy(r.config.managedKeyId) /\ Truthy(r.config.teamId)
         /\ r.account.accessToken # Null
         /\ r.deleted)
        => (CallsOf(r, "delete") # {} /\ r.remote # "none")

C1_Witness ==
    \E p \in Procs :
        LET r == req[p] IN
        /\ r.method = "DELETE" /\ r.deleted
        /\ Truthy(r.config.managedKeyId) /\ Truthy(r.config.teamId)
        /\ r.account.accessToken # Null
        /\ r.remote = "throw"
        /\ r.found \notin DOMAIN integrations

\* C2: every managed "ai-gateway" row has a config that decodes to a
\* non-empty managedKeyId and a non-empty teamId.
C2_ManagedRowsHaveKeyAndTeam ==
    \A id \in DOMAIN integrations :
        (integrations[id].isManaged /\ integrations[id].type = "ai-gateway")
        => LET c == DecodeConfig(integrations[id].config) IN
           /\ c.managedKeyId # Null /\ c.managedKeyId # ""
           /\ c.teamId # Null /\ c.teamId # ""

\* C3: no grant request ends in an exception that left the handler: a
\* transport failure in the team resolver ends in a structured response.
C3_ResolverNeverThrows ==
    \A p \in Procs :
        req[p].method = "POST" => req[p].outcome # "exception"

\* C4: a grant past the gates answers "no linked account" (400) exactly when
\* the session user has no "vercel" account row with an access token, and
\* then no provider call was issued.
C4_NoLinkedAccountExactly ==
    \A p \in Procs :
        LET r == req[p] IN
        (r.method = "POST" /\ Responded(r) /\ r.status \notin {401, 403})
        => /\ (r.error = "No Vercel account linked") <=> ~HasVercelToken(r.user)
           /\ (r.error = "No Vercel account linked")
                => (r.status = 400 /\ r.calls = <<>>)

\* C5: with the feature flag off every request is answered 403 whatever its
\* session; with the flag on and no session user it is answered 401; a
\* request answered by a gate has read nothing, written nothing and called
\* no provider, and the step that answers it leaves every table unchanged.
C5_GateInvariant ==
    \A p \in Procs :
        LET r == req[p] IN
        r.method # "none"
        => /\ ~managedKeysEnabled
                => (Responded(r) /\ r.status = 403
                    /\ r.error = "Feature not enabled")
           /\ (managedKeysEnabled /\ r.user = Null)
                => (Responded(r) /\ r.status = 401
                    /\ r.error = "Not authenticated")
           /\ r.status \in {401, 403}
                => (r.reads = 0 /\ r.writes = 0 /\ r.calls = <<>>)

C5_GateStep ==
    \A p \in Procs :
        (req[p].pc = "idle" /\ req'[p].status \in {401, 403})
        => UNCHANGED <<accounts, integrations, workflows, workflowExecutions,
                       nextId>>

C5_GatesInOrder == []C5_GateInvariant /\ [][C5_GateStep]_vars

C5_Witness ==
    \E p \in Procs :
        /\ ~managedKeysEnabled
        /\ req[p].user # Null
        /\ req[p].status = 403

\* C6: a row leaves the store only in the deleting step of a revoke whose
\* integrationId, session user, type and managed flag all match it; a revoke
\* whose lookup finds no such row answers 404, has called no provider and
\* deletes nothing.
C6_Step ==
    /\ \A id \in DOMAIN integrations :
          id \notin DOMAIN integrations'
          => \E p \in Procs :
                /\ req[p].method = "DELETE" /\ req[p].integrationId = id
                /\ ~req[p].deleted /\ req'[p].deleted
                /\ MatchesFour(id, req[p].user)
    /\ \A p \in Procs :
          (/\ req[p].pc = "del_find"
           /\ ~MatchesFour(req[p].integrationId, req[p].user)
           /\ req'[p] # req[p]
           /\ req'[p].outcome # "interrupted")
          => /\ Responded(req'[p]) /\ req'[p].status = 404
             /\ req'[p].calls = <<>> /\ ~req'[p].deleted
             /\ integrations' = integrations

C6_RevokeOnlyMatchingRow == [][C6_Step]_vars

C6_Witness ==
    \E p \in Procs :
        LET r == req[p] IN
        /\ r.method = "DELETE" /\ Responded(r) /\ r.status = 404
        /\ r.integrationId \in DOMAIN integrations
        /\ integrations[r.integrationId].isManaged
        /\ integrations[r.integrationId].type = "ai-gateway"
        /\ integrations[r.integrationId].userId # r.user

\* C7: a revoke that finds its row answers 200; a revoke of the same
\* integrationId begun after that answers 404 and issues no remote delete.
C7_RevokeTwice ==
    \A p \in Procs :
        LET r == req[p] IN
        r.method = "DELETE"
        => /\ (Ended(r) /\ r.found # 0) => (Responded(r) /\ r.status = 200)
           /\ (r.afterRevoked /\ Ended(r) /\ r.status \notin {401, 403})
                => (Responded(r) /\ r.status = 404 /\ r.calls = <<>>)
           /\ r.afterRevoked => r.found = 0

C7_Witness ==
    \E p \in Procs :
        LET r == req[p] IN
        /\ r.method = "DELETE" /\ r.afterRevoked
        /\ Responded(r) /\ r.status = 404 /\ r.calls = <<>>

\* C8: when the config of the found row does not decrypt or parse, or lacks
\* the managedKeyId or the teamId, the revoke issues no remote delete, goes
\* straight to the local deletion and answers 200 {hasManagedKey: false}.
C8_UndecodableConfig ==
    \A p \in Procs :
        LET r == req[p] IN
        (/\ r.method = "DELETE" /\ r.found # 0
         /\ \/ ~r.decoded
            \/ r.config.managedKeyId \in {Null, ""}
            \/ r.config.teamId \in {Null, ""})
        => /\ r.calls = <<>>
           /\ r.pc \in {"del_row", "done"}
           /\ Ended(r) => /\ Responded(r) /\ r.status = 200
                          /\ r.hasManagedKey = "false"
                          /\ r.deleted
                          /\ r.found \notin DOMAIN integrations

C8_Witness ==
    \E p \in Procs :
        LET r == req[p] IN
        /\ r.method = "DELETE" /\ r.found # 0 /\ ~r.decoded
        /\ Responded(r) /\ r.status = 200 /\ r.hasManagedKey = "false"
        /\ r.calls = <<>>
        /\ r.found \notin DOMAIN integrations

\* C9: a revoke that found its row and ran to its end answers 200 with
\* hasManagedKey false and the row is gone, whether the remote delete
\* succeeded, answered non-2xx or threw; no request issues the remote delete
\* more than once.
C9_RemoteOutcomeIgnored ==
    \A p \in Procs :
        LET r == req[p] IN
        r.method = "DELETE"
        => /\ Cardinality(CallsOf(r, "delete")) <= 1
           /\ (r.found # 0 /\ Ended(r))
                => /\ Responded(r) /\ r.status = 200
                   /\ r.hasManagedKey = "false"
                   /\ r.deleted
                   /\ r.found \notin DOMAIN integrations

C9_Witness ==
    \E p \in Procs :
        LET r == req[p] IN
        /\ r.method = "DELETE" /\ r.remote = "throw"
        /\ Responded(r) /\ r.status = 200 /\ r.hasManagedKey = "false"
        /\ r.found \notin DOMAIN integrations

\* C10: a grant whose body carries an explicit (non-empty) teamId issues
\* neither the team-listing nor the userinfo call, and its key-creation call
\* and its row carry exactly that teamId; a grant that went past the team
\* selection without one did invoke the resolver.
C10_ExplicitTeamBypassesResolver ==
    \A p \in Procs :
        LET r == req[p] IN
        r.method = "POST"
        => /\ (r.bodyTeamId # Null /\ r.bodyTeamId # "")
                => /\ CallsOf(r, "teams") = {} /\ CallsOf(r, "userinfo") = {}
                   /\ \A i \in CallsOf(r, "create") :
                         r.calls[i].teamId = r.bodyTeamId
                   /\ (Responded(r) /\ r.status = 200
                       /\ r.managedIntegrationId \in DOMAIN integrations)
                        => DecodeConfig(
                             integrations[r.managedIntegrationId].config).teamId
                           = r.bodyTeamId
           /\ (CallsOf(r, "teams") # {} \/ CallsOf(r, "userinfo") # {})
                => (~r.bodyParsed \/ r.bodyTeamId \in {Null, ""})
           /\ (CallsOf(r, "create") # {} /\ r.bodyTeamId \in {Null, ""})
                => CallsOf(r, "teams") # {}

C10_Witness ==
    \E p \in Procs :
        LET r == req[p] IN
        /\ r.method = "POST" /\ r.bodyTeamId = "t1"
        /\ Responded(r) /\ r.status = 200
        /\ Len(r.calls) = 1 /\ r.calls[1].kind = "create"
        /\ r.calls[1].teamId = "t1"

\* C11: getTeamId returns the id of the first team of the list that is not
\* limited when the team listing succeeds and holds one, and then issues no
\* userinfo call; when the list is empty or missing, all its teams are
\* limited, or the listing answers non-2xx, it issues the userinfo call once
\* and returns its sub when that call succeeds and null when it answers
\* non-2xx.
C11_ResolverResult ==
    \A p \in Procs :
        LET r == req[p]
            t == r.teamsResp
            u == r.userinfoResp
            eligible == /\ t.kind = "ok" /\ t.hasTeams
                        /\ \E i \in 1..Len(t.teams) : t.teams[i].limited = FALSE
        IN r.method = "getTeamId"
           => /\ (r.pc = "returned" /\ eligible)
                   => /\ \E i \in 1..Len(t.teams) :
                            /\ t.teams[i].limited = FALSE
                            /\ \A j \in 1..Len(t.teams) :
                                  j < i => t.teams[j].limited = TRUE
                            /\ r.teamId = t.teams[i].id
                      /\ CallsOf(r, "userinfo") = {}
              /\ (r.pc = "returned" /\ ~eligible)
                   => /\ t.kind \in {"ok", "non2xx"}
                      /\ Cardinality(CallsOf(r, "userinfo")) = 1
                      /\ u.kind = "ok" => r.teamId = u.sub
                      /\ u.kind = "non2xx" => r.teamId = Null
              /\ CallsOf(r, "userinfo") # {} => ~eligible
              /\ Cardinality(CallsOf(r, "teams")) <= 1

C11_Witness ==
    \E p \in Procs :
        LET r == req[p] IN
        /\ r.method = "getTeamId" /\ r.pc = "returned"
        /\ r.teamsResp.teams = <<Team("t1", TRUE), Team("t2", FALSE)>>
        /\ r.teamId = "t2"
        /\ Len(r.calls) = 1

\* C12: the step in which a grant answers 200 adds exactly one integration
\* row and leaves every other row as it was; the new row is owned by the
\* session user, has type "ai-gateway" and isManaged true, is named by the
\* supplied teamName or by the default name when none was supplied, and its
\* config decodes to the provider's apiKeyString, the provider's apiKey.id and
\* the team id the key was created for; the response carries the new row's
\* id as managedIntegrationId with hasManagedKey true.
C12_Step ==
    \A p \in Procs :
        (req[p].method = "POST" /\ req[p].pc # "done"
         /\ req'[p].pc = "done" /\ req'[p].outcome = "response"
         /\ req'[p].status = 200)
        => LET r == req'[p]
               id == r.managedIntegrationId
           IN /\ id \notin DOMAIN integrations
              /\ DOMAIN integrations' = DOMAIN integrations \cup {id}
              /\ \A i \in DOMAIN integrations : integrations'[i] = integrations[i]
              /\ r.hasManagedKey = "true"
              /\ integrations'[id].userId = r.user
              /\ integrations'[id].type = ManagedType
              /\ integrations'[id].isManaged = TRUE
              /\ integrations'[id].name =
                    (IF r.teamName \in {Null, ""} THEN DefaultTeamName
                     ELSE r.teamName)
              /\ LET c == DecodeConfig(integrations'[id].config)
                     create == r.calls[CHOOSE i \in CallsOf(r, "create") : TRUE]
                 IN /\ c.apiKey = r.created.apiKeyString
                    /\ c.managedKeyId = r.created.apiKeyId
                    /\ c.teamId = create.teamId

C12_GrantAddsOneRow == [][C12_Step]_vars

C12_Witness ==
    \E p \in Procs :
        LET r == req[p] IN
        /\ r.method = "POST" /\ Responded(r) /\ r.status = 200
        /\ r.managedIntegrationId \in DOMAIN integrations
        /\ integrations[r.managedIntegrationId].userId = r.user
        /\ r.created.apiKeyId # Null
        /\ r.teamName = Null
        /\ integrations[r.managedIntegrationId].name = DefaultTeamName

\* C13: a grant whose key-creation call answered non-2xx, or answered 2xx
\* without apiKeyString, has ended with the 500 "Failed to create API key"
\* response and never attempted an insert; no request issues more than one
\* key-creation call.
C13_CreationFailure ==
    \A p \in Procs :
        LET r == req[p]
            noKey == \/ r.created.kind = "non2xx"
                     \/ /\ r.created.kind = "ok"
                        /\ r.created.apiKeyString \in {Null, ""}
        IN /\ Cardinality(CallsOf(r, "create")) <= 1
           /\ (r.method = "POST" /\ noKey)
                => /\ Responded(r)
                   /\ r.status = 500
                   /\ r.error = "Failed to create API key"
                   /\ r.writes = 0
                   /\ r.saved = "none"
                   /\ r.managedIntegrationId = 0

C13_Witness ==
    \E p \in Procs :
        LET r == req[p] IN
        /\ r.method = "POST" /\ Responded(r) /\ r.status = 500
        /\ r.created.kind = "ok" /\ r.created.apiKeyString = Null
        /\ Cardinality(CallsOf(r, "create")) = 1

\* C14: a grant in which the key-creation call threw, the encryption threw,
\* the insert threw or the insert returned no id has ended with the 500
\* "Failed to create API key" response: it did not answer 200 and no
\* exception left the handler.
C14_ExceptionsBecome500 ==
    \A p \in Procs :
        LET r == req[p]
            raised == \/ r.created.kind \in {"throw", "badjson"}
                      \/ r.saved \in {"encrypt_throw", "insert_throw", "no_row"}
        IN (r.method = "POST" /\ raised)
            => /\ Responded(r)
               /\ r.outcome # "exception"
               /\ r.status = 500
               /\ r.error = "Failed to create API key"
               /\ r.hasManagedKey = Null
               /\ r.managedIntegrationId = 0

C14_Witness ==
    \E p \in Procs :
        LET r == req[p] IN
        /\ r.method = "POST" /\ Responded(r) /\ r.status = 500
        /\ r.saved = "no_row" /\ r.writes = 1

\* owner columns of the three tables
OwnersOfRows(table) == {table[k].userId : k \in DOMAIN table}
OwnersOf(table) == {table[k] : k \in DOMAIN table}

\* C15: when the migration for (from, to) has completed without error, every
\* workflow, execution and integration row that was owned by from is owned by
\* to, no row is owned by from, and every row of another owner has its owner
\* unchanged; and a run that starts when no row is owned by from (as after a
\* completed run for the pair) changes no row.
C15_Completed ==
    mig.outcome = "ok"
    => /\ mig.from \notin OwnersOf(workflows)
       /\ mig.from \notin OwnersOf(workflowExecutions)
       /\ mig.from \notin OwnersOfRows(integrations)
       /\ DOMAIN workflows = DOMAIN InitialWorkflows
       /\ DOMAIN workflowExecutions = DOMAIN InitialWorkflowExecutions
       /\ \A k \in DOMAIN InitialWorkflows :
             IF InitialWorkflows[k] = mig.from
             THEN workflows[k] = mig.to
             ELSE workflows[k] = InitialWorkflows[k]
       /\ \A k \in DOMAIN InitialWorkflowExecutions :
             IF InitialWorkflowExecutions[k] = mig.from
             THEN workflowExecutions[k] = mig.to
             ELSE workflowExecutions[k] = InitialWorkflowExecutions[k]
       /\ \A k \in DOMAIN InitialIntegrations :
             /\ k \in DOMAIN integrations
             /\ IF InitialIntegrations[k].userId = mig.from
                THEN integrations[k].userId = mig.to
                ELSE integrations[k].userId = InitialIntegrations[k].userId

C15_RerunStep ==
    (/\ mig.pc # "idle"
     /\ mig' # mig
     /\ mig.from \notin OwnersOf(workflows)
     /\ mig.from \notin OwnersOf(workflowExecutions)
     /\ mig.from \notin OwnersOfRows(integrations))
    => UNCHANGED <<workflows, workflowExecutions, integrations>>

C15_MigrationMovesAllRows == []C15_Completed /\ [][C15_RerunStep]_vars

C15_Witness ==
    /\ mig.outcome = "ok"
    /\ workflows["w1"] = mig.to
    /\ workflowExecutions["e1"] = mig.to
    /\ integrations[2].userId = mig.to
    /\ workflows["w2"] = "u2" /\ mig.to = "u1"

\* C16: a migration step whose update throws ends the run as thrown, never
\* as success, leaves the three tables as the earlier updates of the run
\* made them and attempts no later update; every migration step changes the
\* owner only of rows owned by from; and a run that completes without error,
\* whatever runs failed before it, leaves the owners a single failure-free
\* run would leave.
C16_ThrowStep ==
    /\ (mig.pc # "idle" /\ mig'.pc = "idle" /\ mig'.outcome # "ok")
        => /\ mig'.outcome = "threw"
           /\ UNCHANGED <<workflows, workflowExecutions, integrations>>
    /\ (mig.pc # "idle" /\ mig'.pc = "idle" /\ mig'.outcome = "ok")
        => mig.pc = "integrations" /\ mig.from \notin OwnersOfRows(integrations')
    /\ (mig.outcome = "threw" /\ mig' # mig)
        => /\ mig'.pc = "workflows" /\ mig'.from = mig.from /\ mig'.to = mig.to
           /\ UNCHANGED <<workflows, workflowExecutions, integrations>>
    /\ (mig.pc # "idle" /\ mig' # mig)
        => /\ \A k \in DOMAIN workflows :
                 workflows'[k] # workflows[k] => workflows[k] = mig.from
           /\ \A k \in DOMAIN workflowExecutions :
                 workflowExecutions'[k] # workflowExecutions[k]
                    => workflowExecutions[k] = mig.from
           /\ \A k \in DOMAIN integrations :
                 integrations'[k] # integrations[k]
                    => integrations[k].userId = mig.from

C16_Converged ==
    mig.outcome = "ok"
    => /\ workflows = [k \in DOMAIN InitialWorkflows |->
                         IF InitialWorkflows[k] = mig.from THEN mig.to
                         ELSE InitialWorkflows[k]]
       /\ workflowExecutions = [k \in DOMAIN InitialWorkflowExecutions |->
                         IF InitialWorkflowExecutions[k] = mig.from THEN mig.to
                         ELSE InitialWorkflowExecutions[k]]
       /\ \A k \in DOMAIN integrations : integrations[k].userId # mig.from

C16_PartialFailureConverges == [][C16_ThrowStep]_vars /\ []C16_Converged

C16_Witness ==
    /\ mig.outcome = "threw"
    /\ workflows["w1"] = mig.to
    /\ workflowExecutions["e1"] = mig.to
    /\ integrations[2].userId = mig.from

\* C17: no step changes the config, name, type or isManaged of an
\* integration row that exists before and after it; a grant that answers 200
\* adds one row under an id that no row has or ever had and removes none;
\* rows disappear only by a revoke; so every successful grant, also of the
\* same user for the same team, has its own row until that row is revoked.
C17_Step ==
    /\ \A k \in DOMAIN integrations \cap DOMAIN integrations' :
          /\ integrations'[k].config = integrations[k].config
          /\ integrations'[k].name = integrations[k].name
          /\ integrations'[k].type = integrations[k].type
          /\ integrations'[k].isManaged = integrations[k].isManaged
    /\ \A p \in Procs :
          (req[p].method = "POST" /\ req[p].pc # "done"
           /\ req'[p].pc = "done" /\ req'[p].outcome = "response"
           /\ req'[p].status = 200)
          => /\ req'[p].managedIntegrationId \notin DOMAIN integrations \cup revoked
             /\ DOMAIN integrations' =
                    DOMAIN integrations \cup {req'[p].managedIntegrationId}
    /\ DOMAIN integrations \subseteq DOMAIN integrations' \cup revoked'
    /\ (DOMAIN integrations' \ DOMAIN integrations) \cap revoked = {}

C17_OneRowPerGrant ==
    /\ (DOMAIN integrations \cup revoked) \ DOMAIN InitialIntegrations
         = FirstGeneratedId .. (nextId - 1)
    /\ DOMAIN InitialIntegrations \subseteq DOMAIN integrations

C17_GrantInsertsNeverUpdates == [][C17_Step]_vars /\ []C17_OneRowPerGrant

C17_Witness ==
    /\ {FirstGeneratedId, FirstGeneratedId + 1} \subseteq DOMAIN integrations
    /\ integrations[FirstGeneratedId].userId = "u1"
    /\ integrations[FirstGeneratedId + 1].userId = "u1"
    /\ DecodeConfig(integrations[FirstGeneratedId].config).teamId = "t1"
    /\ DecodeConfig(integrations[FirstGeneratedId + 1].config).teamId = "t1"
    /\ integrations[2].userId = "u1"
    /\ integrations[2].config = InitialIntegrations[2].config

\* C18: decoding (decrypt, then JSON.parse) the ciphertext that encoding
\* (JSON.stringify, then encrypt) made of a record {apiKey, managedKeyId,
\* teamId} of strings gives back a record with the same three values.
C18_RoundTrip ==
    \A p \in Procs :
        (req[p].method = "codec" /\ req[p].pc = "decoded")
        => /\ req[p].config.apiKey = req[p].key.token
           /\ req[p].config.managedKeyId = req[p].key.id
           /\ req[p].config.teamId = req[p].teamId
           /\ DOMAIN req[p].config = {"apiKey", "managedKeyId", "teamId"}

C18_Witness ==
    \E p \in Procs :
        /\ req[p].method = "codec" /\ req[p].pc = "decoded"
        /\ req[p].key = [token |-> "key_1", id |-> ""]
        /\ req[p].teamId = "team_x"
        /\ req[p].config.apiKey = "key_1"
        /\ req[p].config.teamId = "team_x"

\* two revokes in flight for the same row of the same user
SameRevoke(p, q) ==
    /\ p # q
    /\ req[p].method = "DELETE" /\ req[q].method = "DELETE"
    /\ req[p].integrationId # 0
    /\ req[p].integrationId = req[q].integrationId
    /\ req[p].user # Null /\ req[p].user = req[q].user

C19_Inv ==
    \A p \in Procs :
        LET r == req[p] IN
        r.method = "DELETE"
        => /\ (Ended(r) /\ r.found # 0) => (Responded(r) /\ r.status = 200)
           /\ Cardinality(CallsOf(r, "delete")) <= 1
           /\ CallsOf(r, "delete") # {} => r.found # 0
           /\ \A i \in CallsOf(r, "delete") :
                 /\ r.calls[i].keyId = r.config.managedKeyId
                 /\ r.calls[i].teamId = r.config.teamId
           /\ (Responded(r) /\ r.status = 200)
                => (r.found = r.integrationId /\ r.found \notin DOMAIN integrations)
           /\ (Responded(r) /\ r.status = 404) => (r.found = 0 /\ r.calls = <<>>)
           /\ \A q \in Procs :
                 (SameRevoke(p, q) /\ r.decoded /\ req[q].decoded)
                 => req[q].config = r.config

C19_Step ==
    \A p \in Procs :
        (/\ req[p].method = "DELETE" /\ req[p].pc = "del_find"
         /\ req[p].integrationId \notin DOMAIN integrations
         /\ req'[p] # req[p]
         /\ req'[p].outcome # "interrupted")
        => /\ req'[p].pc = "done" /\ req'[p].outcome = "response"
           /\ req'[p].status = 404
           /\ req'[p].calls = <<>>

C20_CallsCarryVercelToken ==
    \A p \in Procs :
        LET r == req[p] IN
        r.method \in {"POST", "DELETE"}
        => \A i \in 1..Len(r.calls) :
              \E a \in accounts :
                 /\ a.userId = r.user
                 /\ a.providerId = VercelProvider
                 /\ a.accessToken = r.calls[i].token

====
